---------------------------- MODULE Spec2Model ----------------------------
(***************************************************************************)
(* Client-orchestrated write protocols of the social app against its       *)
(* document store: like-notification aggregation, the follow graph with    *)
(* its follow requests, and the 1:1 chat fan-out.  Every handler is an     *)
(* action; the store is the set of documents each collection holds.        *)
(***************************************************************************)
EXTENDS Integers, Sequences, FiniteSets, TLC

(***************************************************************************)
(* Bounds of the model.                                                    *)
(***************************************************************************)
NumActors == 4      \* users other than the post owner
MaxOps == 4         \* handler calls in one behaviour of the like protocol
MaxFollowOps == 3   \* handler calls in one behaviour of the follow protocol
MaxChatOps == 3     \* send / mark-seen calls started in one behaviour of the chat
MaxConcOps == 2     \* calls each client starts in the concurrent like protocol
NumClients == 3     \* clients whose calls interleave at the store
MessageLimit == 2   \* messageLimit of the subscription to a conversation's messages
MaxGroupOps == 3    \* group calls in one behaviour of the group protocol
MaxSocialOps == 3   \* calls in one behaviour of likes and follows together
MaxIdLen == 3       \* characters of a user identifier passed to createConversationId
MaxReelOps == 3         \* likeReel / unlikeReel calls in one behaviour
MaxToggleOps == 7       \* likes and unlikes in one behaviour of SpecLikeToggle
MaxGroupMsgOps == 4     \* group and group message calls in one behaviour of SpecGroupChat

Owner == 0                      \* the user who owns post P
Actors == 1..NumActors
Users == {Owner} \cup Actors
P == "p1"                       \* the post that is liked
NoPost == "none"                \* additionalData without postId

VARIABLES
    \* notifications/{receiverId}/items : set of notification documents
    notifs,
    \* next auto-id handed out by addDoc
    nextId,
    \* the store's clock behind serverTimestamp()
    clock,
    \* posts/P : likes array (as a set) and likeCount
    postLikes, likeCount,
    \* history of the like/unlike calls made so far (sequential protocol)
    hist,
    \* concurrent clients: where each client's call stands, the document its
    \* getDocs returned, and the number of calls it has started
    cpc, csnap, cops,
    \* users/{t}/followRequests/{r} as pairs <<t, r>>, users/{t}/followers/{f}
    \* as pairs <<t, f>>, users/{f}/following/{t} as pairs <<f, t>>
    followRequests, followers, following,
    \* users/{u}: followersCount, followingCount, isPrivate
    followersCount, followingCount, isPrivate,
    \* the last follow-graph handler that ran, with its result, and how many ran
    lastOp, fops,
    \* conversations/{id}, conversations/{id}/messages, userChats/{u}/chats/{id}
    conv, messages, inbox,
    \* each client's sendMessageToConversation in flight: position, text, media
    spc, stext, smedia, sres,
    \* each client's markConversationMessagesAsSeen in flight: position, the
    \* ids its query returned
    mpc, mids,
    \* calls started; the send whose inbox write is the latest step on the
    \* conversation
    chatOps, recent,
    \* the id of the message document each send in flight created a reference
    \* for, and the step at which a send that ended in an error failed
    sid, sfail,
    \* the list last handed to the callback of subscribeToConversationMessages,
    \* and whether its listener is still attached
    delivered, listening,
    \* groups/{g}: the group document the model follows; the last group call
    \* with its outcome, and the number of group calls made
    group, gres, gops,
    \* the client session: the user the auth service holds, the currentUser
    \* state of the auth context, whether a listener run for a signed-out
    \* user is waiting to clear the cache, where logout() stands
    authUser, currentUser, aclear, lpc,
    \* the cached chat list (the user it belongs to), and the user the chat
    \* page's effects last ran for
    cache, ceff,
    \* useUnifiedNotifications: the user whose notifications its listener is
    \* attached to and whether the listener is alive, the snapshot handlers
    \* that are fetching profiles, and the notifications state
    nsub, nlive, npending, nstate,
    \* the snapshot the attached listener received last
    nlast,
    \* the arguments of the last call of createConversationId and its result
    cin, cout,
    \* reels/R : likes array (as a set) and likeCount; the likeReel /
    \* unlikeReel calls made so far
    reelLikes, reelLikeCount, rhist,
    \* the arguments of the last successful createGroupChat and the id it
    \* returned
    gargs,
    \* groups/G/messages, the group's lastMessage field, the last call of
    \* sendGroupMessage / markGroupMessageAsSeen and the number of such calls
    gmsgs, glast, gmres, gmops

chatVars == <<conv, messages, inbox, spc, stext, smedia, sres, mpc, mids, chatOps, recent,
              sid, sfail, delivered, listening>>
groupVars == <<group, gres, gops, gargs>>
gmsgVars == <<gmsgs, glast, gmres, gmops>>
convIdVars == <<cin, cout>>
reelVars == <<reelLikes, reelLikeCount, rhist>>
sessVars == <<authUser, currentUser, aclear, lpc, cache, ceff, nsub, nlive, npending, nstate,
              nlast>>
graphVars == <<followRequests, followers, following, followersCount, followingCount>>
followVars == <<graphVars, isPrivate, lastOp, fops>>
concVars == <<cpc, csnap, cops>>
likeVars == <<postLikes, likeCount, hist>>
storeVars == <<notifs, nextId, clock>>

(***************************************************************************)
(* Sequence helpers (Array.prototype.filter / slice).                      *)
(***************************************************************************)
RECURSIVE FilterOut(_, _)
FilterOut(seq, x) ==
    IF seq = <<>> THEN <<>>
    ELSE IF Head(seq) = x THEN FilterOut(Tail(seq), x)
    ELSE <<Head(seq)>> \o FilterOut(Tail(seq), x)

Slice3(seq) == IF Len(seq) <= 3 THEN seq ELSE SubSeq(seq, 1, 3)

Ids(ns) == {n.id : n \in ns}

(***************************************************************************)
(* unifiedNotificationService.ts                                           *)
(***************************************************************************)
\* getUserProfile(senderId): the profile document of a registered user.
getUserProfile(u) == u \in Users

\* where('type','==','like'), where('postId','==',postId)
LikeQuery(ns, r, p) ==
    {n \in ns : n.receiverId = r /\ n.type = "like" /\ n.postId = p}

\* a duplicate check that never finds the earlier notification
FollowRequestQuery_blind(ns, r, s) == {}

\* where('senderId','==',senderId), where('type','==','follow_request')
FollowRequestQuery(ns, r, s) ==
    {n \in ns : n.receiverId = r /\ n.type = "follow_request" /\ n.senderId = s}

\* the actor list without the cap of three
newActors_uncapped(currentActors, s) == <<s>> \o FilterOut(currentActors, s)

\* [senderId, ...currentActors.filter(id => id !== senderId)].slice(0, 3)
newActors(currentActors, s) == Slice3(<<s>> \o FilterOut(currentActors, s))

\* updateDoc of the existing like notification with aggregation
AggregatedLike(d, s, now) ==
    [d EXCEPT !.timestamp = now,
              !.seen = FALSE,
              !.aggregatedCount = @ + 1,
              !.lastActors = newActors(d.lastActors, s),
              !.senderId = s]

\* updateDoc of the existing follow_request notification
RefreshedRequest(d, now) == [d EXCEPT !.timestamp = now, !.seen = FALSE]

\* notificationData of a new notification
NewNotification(id, r, s, type, p, now) ==
    [id |-> id, type |-> type, senderId |-> s, receiverId |-> r,
     timestamp |-> now, seen |-> FALSE, aggregatedCount |-> 1,
     lastActors |-> <<s>>, postId |-> p]

\* createUnifiedNotification without its test for a self-action
createUnifiedNotification_noSelfCheck(ns, r, s, type, p, id, now) ==
    IF ~getUserProfile(s) THEN {ns}
    ELSE IF type = "like" /\ p # NoPost /\ LikeQuery(ns, r, p) # {}
    THEN {(ns \ {d}) \cup {AggregatedLike(d, s, now)} : d \in LikeQuery(ns, r, p)}
    ELSE IF type = "follow_request" /\ FollowRequestQuery(ns, r, s) # {}
    THEN {(ns \ {d}) \cup {RefreshedRequest(d, now)} : d \in FollowRequestQuery(ns, r, s)}
    ELSE {ns \cup {NewNotification(id, r, s, type, p, now)}}

\* The stores createUnifiedNotification can leave when it runs to its end
\* on store ns (limit(1) returns any one of the matching documents).
createUnifiedNotification(ns, r, s, type, p, id, now) ==
    IF r = s THEN {ns}
    ELSE IF ~getUserProfile(s) THEN {ns}
    ELSE IF type = "like" /\ p # NoPost /\ LikeQuery(ns, r, p) # {}
    THEN {(ns \ {d}) \cup {AggregatedLike(d, s, now)} : d \in LikeQuery(ns, r, p)}
    ELSE IF type = "follow_request" /\ FollowRequestQuery(ns, r, s) # {}
    THEN {(ns \ {d}) \cup {RefreshedRequest(d, now)} : d \in FollowRequestQuery(ns, r, s)}
    ELSE {ns \cup {NewNotification(id, r, s, type, p, now)}}

createLikeNotification(ns, postOwnerId, likerId, postId, id, now) ==
    createUnifiedNotification(ns, postOwnerId, likerId, "like", postId, id, now)

createFollowRequestNotification(ns, targetUserId, requesterId, id, now) ==
    createUnifiedNotification(ns, targetUserId, requesterId, "follow_request", NoPost, id, now)

createFollowAcceptNotification(ns, requesterId, accepterId, id, now) ==
    createUnifiedNotification(ns, requesterId, accepterId, "follow_accept", NoPost, id, now)

\* the query of removeUnifiedNotification
RemoveQuery(ns, r, s, type, p) ==
    {n \in ns : /\ n.receiverId = r
                /\ n.type = type
                /\ (p # NoPost => n.postId = p)
                /\ (type # "like" => n.senderId = s)}

\* the primary sender left as it was
PromotedSender_kept(actors, old) == old

\* senderId: newActors[0] || data.senderId
PromotedSender(actors, old) == IF actors = <<>> THEN old ELSE Head(actors)

\* the like branch that decrements and never deletes
UnlikeDoc_neverDeletes(d, s, now) ==
    {[d EXCEPT !.aggregatedCount = @ - 1,
               !.lastActors = FilterOut(d.lastActors, s),
               !.senderId = PromotedSender(FilterOut(d.lastActors, s), d.senderId),
               !.timestamp = now]}

\* the like branch of removeUnifiedNotification on document d: the documents
\* that replace d (none when it is deleted)
UnlikeDoc(d, s, now) ==
    IF d.aggregatedCount > 1
    THEN {[d EXCEPT !.aggregatedCount = @ - 1,
                    !.lastActors = FilterOut(d.lastActors, s),
                    !.senderId = PromotedSender(FilterOut(d.lastActors, s), d.senderId),
                    !.timestamp = now]}
    ELSE {}

\* The stores removeUnifiedNotification can leave (docs[0] is any match).
removeUnifiedNotification(ns, r, s, type, p, now) ==
    IF type = "like" /\ RemoveQuery(ns, r, s, type, p) # {}
    THEN {(ns \ {d}) \cup UnlikeDoc(d, s, now) : d \in RemoveQuery(ns, r, s, type, p)}
    ELSE {ns \ RemoveQuery(ns, r, s, type, p)}

\* addDoc consumed the auto-id
IdUsed(ns, ns2, id) == IF id \in Ids(ns2) \ Ids(ns) THEN id + 1 ELSE id

(***************************************************************************)
(* likePost / unlikePost, one call after the other.                        *)
(***************************************************************************)
PostOwner == Owner

\* the store calls of a likePost that returns true
likePost_writes(userId) ==
    /\ postLikes' = postLikes \cup {userId}
    /\ likeCount' = likeCount + 1
    /\ IF PostOwner # userId
       THEN notifs' \in createLikeNotification(notifs, PostOwner, userId, P, nextId, clock)
       ELSE notifs' = notifs
    /\ nextId' = IdUsed(notifs, notifs', nextId)
    /\ clock' = clock + 1
    /\ UNCHANGED <<concVars, followVars, chatVars, groupVars, sessVars, convIdVars, reelVars, gmsgVars>>

likePost(userId) ==
    /\ Len(hist) < MaxOps
    /\ likePost_writes(userId)
    /\ hist' = Append(hist, [op |-> "like", actor |-> userId])

\* likePost by a user whose like is not in effect
likePost_notLiking(userId) ==
    /\ clock <= MaxToggleOps
    /\ userId \notin postLikes
    /\ likePost_writes(userId)
    /\ UNCHANGED hist

\* likePost ending in its catch (return false): k = 0, getDoc or updateDoc
\* threw and nothing is written; k = 1, the post is updated and
\* createLikeNotification, called for a liker other than the owner, threw
likePost_fails(userId) ==
    /\ Len(hist) < MaxOps
    /\ \E k \in 0..1 :
        /\ k = 1 => PostOwner # userId
        /\ postLikes' = IF k = 1 THEN postLikes \cup {userId} ELSE postLikes
        /\ likeCount' = IF k = 1 THEN likeCount + 1 ELSE likeCount
    /\ clock' = clock + 1
    /\ hist' = Append(hist, [op |-> "likeError", actor |-> userId])
    /\ UNCHANGED <<notifs, nextId, concVars, followVars, chatVars, groupVars, sessVars, convIdVars, reelVars, gmsgVars>>

\* the store calls of an unlikePost that returns true
unlikePost_writes(userId) ==
    /\ postLikes' = postLikes \ {userId}
    /\ likeCount' = likeCount - 1
    /\ IF PostOwner # userId
       THEN notifs' \in removeUnifiedNotification(notifs, PostOwner, userId, "like", P, clock)
       ELSE notifs' = notifs
    /\ nextId' = nextId
    /\ clock' = clock + 1
    /\ UNCHANGED <<concVars, followVars, chatVars, groupVars, sessVars, convIdVars, reelVars, gmsgVars>>

unlikePost(userId) ==
    /\ Len(hist) < MaxOps
    /\ unlikePost_writes(userId)
    /\ hist' = Append(hist, [op |-> "unlike", actor |-> userId])

\* unlikePost by a user whose like is in effect
unlikePost_liking(userId) ==
    /\ clock <= MaxToggleOps
    /\ userId \in postLikes
    /\ unlikePost_writes(userId)
    /\ UNCHANGED hist

(***************************************************************************)
(* createUnifiedNotification / removeUnifiedNotification of kind 'like',   *)
(* called by several clients at once: every await is a step, and the store *)
(* serves the steps of different clients in any order.                     *)
(***************************************************************************)
Clients == 1..NumClients
NoDoc == [id |-> 0]

Snapshots(q) == IF q = {} THEN {NoDoc} ELSE q

\* await getDocs(existingQuery) of createUnifiedNotification
createLike_getDocs(c) ==
    /\ cpc[c] = "idle"
    /\ cops[c] < MaxConcOps
    /\ Owner # c /\ getUserProfile(c)
    /\ \E d \in Snapshots(LikeQuery(notifs, Owner, P)) : csnap' = [csnap EXCEPT ![c] = d]
    /\ cpc' = [cpc EXCEPT ![c] = "like"]
    /\ cops' = [cops EXCEPT ![c] = @ + 1]
    /\ UNCHANGED <<storeVars, likeVars, followVars, chatVars, groupVars, sessVars, convIdVars, reelVars, gmsgVars>>

\* await updateDoc(existingDoc.ref, ...) or await addDoc(...)
createLike_write(c) ==
    /\ cpc[c] = "like"
    /\ IF csnap[c] # NoDoc
       THEN \* updateDoc throws when the document is gone
            notifs' = {IF n.id = csnap[c].id THEN AggregatedLike(csnap[c], c, clock) ELSE n
                         : n \in notifs}
       ELSE notifs' = notifs \cup {NewNotification(nextId, Owner, c, "like", P, clock)}
    /\ nextId' = IdUsed(notifs, notifs', nextId)
    /\ clock' = clock + 1
    /\ cpc' = [cpc EXCEPT ![c] = "idle"]
    /\ csnap' = [csnap EXCEPT ![c] = NoDoc]
    /\ UNCHANGED <<cops, likeVars, followVars, chatVars, groupVars, sessVars, convIdVars, reelVars, gmsgVars>>

\* await getDocs(q) of removeUnifiedNotification
removeLike_getDocs(c) ==
    /\ cpc[c] = "idle"
    /\ cops[c] < MaxConcOps
    /\ \E d \in Snapshots(RemoveQuery(notifs, Owner, c, "like", P)) :
          csnap' = [csnap EXCEPT ![c] = d]
    /\ cpc' = [cpc EXCEPT ![c] = "unlike"]
    /\ cops' = [cops EXCEPT ![c] = @ + 1]
    /\ UNCHANGED <<storeVars, likeVars, followVars, chatVars, groupVars, sessVars, convIdVars, reelVars, gmsgVars>>

\* await updateDoc(doc.ref, ...) or await deleteDoc(doc.ref); with an empty
\* snapshot Promise.all([]) writes nothing
removeLike_write(c) ==
    /\ cpc[c] = "unlike"
    /\ IF csnap[c] = NoDoc
       THEN notifs' = notifs
       ELSE notifs' = UNION {IF n.id = csnap[c].id
                             THEN {[m EXCEPT !.seen = n.seen] : m \in UnlikeDoc(csnap[c], c, clock)}
                             ELSE {n}
                               : n \in notifs}
    /\ clock' = clock + 1
    /\ cpc' = [cpc EXCEPT ![c] = "idle"]
    /\ csnap' = [csnap EXCEPT ![c] = NoDoc]
    /\ UNCHANGED <<nextId, cops, likeVars, followVars, chatVars, groupVars, sessVars, convIdVars, reelVars, gmsgVars>>


(***************************************************************************)
(* follow/followOperations.ts.  A handler issues its store calls one after *)
(* the other; k is the number of them that completed before one threw (or  *)
(* the client stopped), so k = all of them is the call that runs to its    *)
(* end.  The handlers catch the error and return false.                    *)
(***************************************************************************)
\* the two users of the follow graph: every handler works on one ordered pair
FollowUsers == {1, 2}

Op(name, a, b, ok, full) == [op |-> name, a |-> a, b |-> b, ok |-> ok, full |-> full]
NoOp == Op("none", 0, 0, FALSE, FALSE)

Returned(name, a, b, ok, full) ==
    /\ fops' = fops + 1
    /\ lastOp' = Op(name, a, b, ok, full)
    /\ clock' = clock + 1

Bump(f, u, d) == [f EXCEPT ![u] = @ + d]

\* the writes of sendFollowRequest with the following edge written as well
sendFollowRequestWrites_withEdge(c, t, k) ==
    /\ followRequests' = IF k >= 1 THEN followRequests \cup {<<t, c>>} ELSE followRequests
    /\ following' = IF k >= 1 THEN following \cup {<<c, t>>} ELSE following
    /\ IF k >= 2
       THEN notifs' \in createFollowRequestNotification(notifs, t, c, nextId, clock)
       ELSE notifs' = notifs
    /\ nextId' = IdUsed(notifs, notifs', nextId)
    /\ UNCHANGED <<followers, followersCount, followingCount>>

\* sendFollowRequest: setDoc(followRequestRef), then the notification in
\* its own try/catch
sendFollowRequestWrites(c, t, k) ==
    /\ followRequests' = IF k >= 1 THEN followRequests \cup {<<t, c>>} ELSE followRequests
    /\ IF k >= 2
       THEN notifs' \in createFollowRequestNotification(notifs, t, c, nextId, clock)
       ELSE notifs' = notifs
    /\ nextId' = IdUsed(notifs, notifs', nextId)
    /\ UNCHANGED <<followers, following, followersCount, followingCount>>

sendFollowRequest(c, t) ==
    /\ fops < MaxFollowOps
    /\ IF c = t
       THEN /\ UNCHANGED <<graphVars, notifs, nextId>>
            /\ Returned("sendFollowRequest", c, t, FALSE, FALSE)
       ELSE \E k \in 0..2 :
            /\ sendFollowRequestWrites(c, t, k)
            /\ Returned("sendFollowRequest", c, t, k >= 1, k = 2)
    /\ UNCHANGED <<isPrivate, likeVars, concVars, chatVars, groupVars, sessVars, convIdVars, reelVars, gmsgVars>>

\* followUser: private target -> sendFollowRequest; public target -> the
\* two edge documents and the two counters, four separate writes
followUser(c, t) ==
    /\ fops < MaxFollowOps
    /\ IF c = t
       THEN /\ UNCHANGED <<graphVars, notifs, nextId>>
            /\ Returned("followUser", c, t, FALSE, FALSE)
       ELSE IF isPrivate[t]
       THEN \E k \in 0..2 :
            /\ sendFollowRequestWrites(c, t, k)
            /\ Returned("followUser", c, t, k >= 1, k = 2)
       ELSE \E k \in 0..4 :
            /\ following' = IF k >= 1 THEN following \cup {<<c, t>>} ELSE following
            /\ followers' = IF k >= 2 THEN followers \cup {<<t, c>>} ELSE followers
            /\ followingCount' = IF k >= 3 THEN Bump(followingCount, c, 1) ELSE followingCount
            /\ followersCount' = IF k >= 4 THEN Bump(followersCount, t, 1) ELSE followersCount
            /\ UNCHANGED <<followRequests, notifs, nextId>>
            /\ Returned("followUser", c, t, k = 4, k = 4)
    /\ UNCHANGED <<isPrivate, likeVars, concVars, chatVars, groupVars, sessVars, convIdVars, reelVars, gmsgVars>>

\* acceptFollowRequest keeping the request document
AcceptedRequests_kept(reqs, t, r, k) == reqs

\* deleteDoc(followRequestRef), the first write of acceptFollowRequest
AcceptedRequests(reqs, t, r, k) == IF k >= 1 THEN reqs \ {<<t, r>>} ELSE reqs

\* the store after removeUnifiedNotification, which catches its own errors:
\* the step may have no effect and the caller goes on
BestEffortRemove(ns, r, s, type, now) ==
    removeUnifiedNotification(ns, r, s, type, NoPost, now) \cup {ns}

\* acceptFollowRequest(currentUserId = t, requesterId = r): seven store calls
acceptFollowRequest(t, r) ==
    /\ fops < MaxFollowOps
    /\ \E k \in 0..7 :
        /\ followRequests' = AcceptedRequests(followRequests, t, r, k)
        /\ followers' = IF k >= 2 THEN followers \cup {<<t, r>>} ELSE followers
        /\ following' = IF k >= 3 THEN following \cup {<<r, t>>} ELSE following
        /\ followersCount' = IF k >= 4 THEN Bump(followersCount, t, 1) ELSE followersCount
        /\ followingCount' = IF k >= 5 THEN Bump(followingCount, r, 1) ELSE followingCount
        /\ \E removed \in (IF k >= 6
                           THEN BestEffortRemove(notifs, t, r, "follow_request", clock)
                           ELSE {notifs}) :
              IF k >= 7
              THEN notifs' \in createFollowAcceptNotification(removed, r, t, nextId, clock)
              ELSE notifs' = removed
        /\ nextId' = IdUsed(notifs, notifs', nextId)
        /\ Returned("acceptFollowRequest", t, r, k = 7, k = 7)
    /\ UNCHANGED <<isPrivate, likeVars, concVars, chatVars, groupVars, sessVars, convIdVars, reelVars, gmsgVars>>

(***************************************************************************)
(* The batched acceptFollowRequest with its notification service           *)
(* (instagramNotificationService.ts).                                      *)
(***************************************************************************)
createInstagramNotification(ns, r, s, type, p, id, now) ==
    IF r = s THEN {ns}
    ELSE IF ~getUserProfile(s) THEN {ns}
    ELSE IF type = "like" /\ p # NoPost /\ LikeQuery(ns, r, p) # {}
    THEN {(ns \ {d}) \cup {AggregatedLike(d, s, now)} : d \in LikeQuery(ns, r, p)}
    ELSE IF type = "follow_request" /\ FollowRequestQuery(ns, r, s) # {}
    THEN {ns}
    ELSE {ns \cup {NewNotification(id, r, s, type, p, now)}}

removeInstagramNotification(ns, r, s, type, p, now) ==
    IF type = "like" /\ RemoveQuery(ns, r, s, type, p) # {}
    THEN {(ns \ {d}) \cup UnlikeDoc(d, s, now) : d \in RemoveQuery(ns, r, s, type, p)}
    ELSE {ns \ RemoveQuery(ns, r, s, type, p)}

\* acceptFollowRequest(currentUserId = t, requesterUserId = r): one batch
\* (both edges set, the request deleted), then the notifications inside a
\* try/catch of their own
acceptFollowRequest_batch(t, r) ==
    /\ fops < MaxFollowOps
    /\ \E k \in 0..1 :
        /\ followers' = IF k >= 1 THEN followers \cup {<<t, r>>} ELSE followers
        /\ following' = IF k >= 1 THEN following \cup {<<r, t>>} ELSE following
        /\ followRequests' = IF k >= 1 THEN followRequests \ {<<t, r>>} ELSE followRequests
        /\ IF k >= 1
           THEN \E removed \in removeInstagramNotification(notifs, t, r, "followrequest", NoPost, clock)
                                 \cup {notifs} :
                   notifs' \in createInstagramNotification(removed, r, t, "followaccept",
                                                           NoPost, nextId, clock)
                                 \cup {removed}
           ELSE notifs' = notifs
        /\ nextId' = IdUsed(notifs, notifs', nextId)
        /\ Returned("acceptFollowRequest_batch", t, r, k = 1, k = 1)
    /\ UNCHANGED <<followersCount, followingCount, isPrivate, likeVars, concVars, chatVars, groupVars, sessVars, convIdVars, reelVars, gmsgVars>>

\* rejectFollowRequest: deleteDoc(followRequestRef), removeUnifiedNotification
rejectFollowRequest(t, r) ==
    /\ fops < MaxFollowOps
    /\ \E k \in 0..2 :
        /\ followRequests' = IF k >= 1 THEN followRequests \ {<<t, r>>} ELSE followRequests
        /\ IF k >= 2
           THEN notifs' \in BestEffortRemove(notifs, t, r, "follow_request", clock)
           ELSE notifs' = notifs
        /\ Returned("rejectFollowRequest", t, r, k = 2, k = 2)
    /\ UNCHANGED <<followers, following, followersCount, followingCount, nextId>>
    /\ UNCHANGED <<isPrivate, likeVars, concVars, chatVars, groupVars, sessVars, convIdVars, reelVars, gmsgVars>>

\* unfollowUser: a pending request is cancelled; otherwise both edge
\* documents are deleted and both counters decremented
unfollowUser(c, t) ==
    /\ fops < MaxFollowOps
    /\ IF <<t, c>> \in followRequests
       THEN \E k \in 0..1 :
            /\ followRequests' = IF k >= 1 THEN followRequests \ {<<t, c>>} ELSE followRequests
            /\ UNCHANGED <<followers, following, followersCount, followingCount>>
            /\ Returned("unfollowUser", c, t, k = 1, k = 1)
       ELSE \E k \in 0..4 :
            /\ following' = IF k >= 1 THEN following \ {<<c, t>>} ELSE following
            /\ followers' = IF k >= 2 THEN followers \ {<<t, c>>} ELSE followers
            /\ followingCount' = IF k >= 3 THEN Bump(followingCount, c, -1) ELSE followingCount
            /\ followersCount' = IF k >= 4 THEN Bump(followersCount, t, -1) ELSE followersCount
            /\ UNCHANGED followRequests
            /\ Returned("unfollowUser", c, t, k = 4, k = 4)
    /\ UNCHANGED <<notifs, nextId, isPrivate, likeVars, concVars, chatVars, groupVars, sessVars, convIdVars, reelVars, gmsgVars>>

\* removeFollower(currentUserId = c, followerUserId = f)
removeFollower(c, f) ==
    /\ fops < MaxFollowOps
    /\ \E k \in 0..4 :
        /\ followers' = IF k >= 1 THEN followers \ {<<c, f>>} ELSE followers
        /\ following' = IF k >= 2 THEN following \ {<<f, c>>} ELSE following
        /\ followersCount' = IF k >= 3 THEN Bump(followersCount, c, -1) ELSE followersCount
        /\ followingCount' = IF k >= 4 THEN Bump(followingCount, f, -1) ELSE followingCount
        /\ Returned("removeFollower", c, f, k = 4, k = 4)
    /\ UNCHANGED <<followRequests, notifs, nextId, isPrivate, likeVars, concVars, chatVars, groupVars, sessVars, convIdVars, reelVars, gmsgVars>>

\* cancelFollowRequest(currentUserId = c, targetUserId = t)
cancelFollowRequest(c, t) ==
    /\ fops < MaxFollowOps
    /\ \E k \in 0..1 :
        /\ followRequests' = IF k >= 1 THEN followRequests \ {<<t, c>>} ELSE followRequests
        /\ Returned("cancelFollowRequest", c, t, k = 1, k = 1)
    /\ UNCHANGED <<followers, following, followersCount, followingCount>>
    /\ UNCHANGED <<notifs, nextId, isPrivate, likeVars, concVars, chatVars, groupVars, sessVars, convIdVars, reelVars, gmsgVars>>

\* markUnifiedNotificationAsSeen(userId, notificationId)
markUnifiedNotificationAsSeen(userId, notificationId) ==
    /\ fops < MaxFollowOps
    /\ \E n \in notifs :
        /\ n.receiverId = userId /\ n.id = notificationId /\ ~n.seen
        /\ notifs' = (notifs \ {n}) \cup {[n EXCEPT !.seen = TRUE]}
    /\ Returned("markUnifiedNotificationAsSeen", userId, notificationId, TRUE, TRUE)
    /\ UNCHANGED <<graphVars, nextId, isPrivate, likeVars, concVars, chatVars, groupVars, sessVars, convIdVars, reelVars, gmsgVars>>

\* the account owner switches the profile between public and private
\* the kinds of notification and the post a call names for each
NotificationTypes == {"like", "comment", "follow_request", "follow_accept"}
PostOf(type) == IF type \in {"like", "comment"} THEN P ELSE NoPost

\* createUnifiedNotification called with any receiver and sender; the call
\* is recorded like a handler's
createUnifiedNotification_call(r, s, type) ==
    /\ fops < MaxFollowOps
    /\ notifs' \in createUnifiedNotification(notifs, r, s, type, PostOf(type), nextId, clock)
    /\ nextId' = IdUsed(notifs, notifs', nextId)
    /\ Returned("createUnifiedNotification", r, s, TRUE, TRUE)
    /\ UNCHANGED <<graphVars, isPrivate, likeVars, concVars, chatVars, groupVars, sessVars, convIdVars, reelVars, gmsgVars>>

setPrivacy(u, b) ==
    /\ isPrivate[u] # b
    /\ isPrivate' = [isPrivate EXCEPT ![u] = b]
    /\ UNCHANGED <<graphVars, lastOp, fops, storeVars, likeVars, concVars, chatVars, groupVars, sessVars, convIdVars, reelVars, gmsgVars>>


(***************************************************************************)
(* The 1:1 chat: sendMessageToConversation, markConversationMessagesAsSeen *)
(* and the conversation service they call.  Each awaited store call is a   *)
(* step; the steps of different calls interleave at the store.             *)
(***************************************************************************)
ChatUsers == {1, 2}
otherThanChat ==
    <<notifs, nextId, likeVars, concVars, followVars, groupVars, sessVars, convIdVars, reelVars, gmsgVars>>
Other(u) == CHOOSE v \in ChatUsers : v # u

\* message texts as character sequences: one padded with whitespace, one
\* clean, one of whitespace only
Texts == {<<" ", "a">>, <<"b">>, <<" ">>}

\* String.prototype.trim
RECURSIVE TrimStart(_)
TrimStart(t) == IF t # <<>> /\ Head(t) = " " THEN TrimStart(Tail(t)) ELSE t
RECURSIVE TrimEnd(_)
TrimEnd(t) == IF t # <<>> /\ t[Len(t)] = " " THEN TrimEnd(SubSeq(t, 1, Len(t) - 1)) ELSE t
trim(t) == TrimEnd(TrimStart(t))

NoDocument == [exists |-> FALSE]
NoSend == [sender |-> 0]

\* createOrUpdateConversation: setDoc(conversationRef, {...}, {merge: true})
ConversationDoc(lastMessage, senderId, now) ==
    [exists |-> TRUE, lastMessage |-> lastMessage, lastMessageSenderId |-> senderId,
     timestamp |-> now, seen |-> FALSE]

\* the sender's entry written as not seen
SenderChat_unseen(lastMessage, senderId, now) ==
    [exists |-> TRUE, lastMessage |-> lastMessage, lastMessageSenderId |-> senderId,
     timestamp |-> now, seen |-> FALSE]

\* updateUserChats: the sender's entry
SenderChat(lastMessage, senderId, now) ==
    [exists |-> TRUE, lastMessage |-> lastMessage, lastMessageSenderId |-> senderId,
     timestamp |-> now, seen |-> TRUE]

\* the receiver's entry written as already seen
ReceiverChat_seen(lastMessage, senderId, now) ==
    [exists |-> TRUE, lastMessage |-> lastMessage, lastMessageSenderId |-> senderId,
     timestamp |-> now, seen |-> TRUE]

\* updateUserChats: the receiver's entry
ReceiverChat(lastMessage, senderId, now) ==
    [exists |-> TRUE, lastMessage |-> lastMessage, lastMessageSenderId |-> senderId,
     timestamp |-> now, seen |-> FALSE]

\* messageData
MessageDoc(id, text, senderId, receiverId, media, now) ==
    [id |-> id, text |-> text, senderId |-> senderId, receiverId |-> receiverId,
     timestamp |-> now, seen |-> FALSE, status |-> "sent", media |-> media]

\* if (!text.trim() && !mediaURL) throw
ValidMessage(text, media) == trim(text) # <<>> \/ media

\* a call with neither text nor media throws before any store call
sendMessage_rejected(u, text, media) ==
    /\ spc[u] = "idle"
    /\ chatOps < MaxChatOps
    /\ ~ValidMessage(text, media)
    /\ sres' = [sres EXCEPT ![u] = "rejected"]
    /\ chatOps' = chatOps + 1
    /\ UNCHANGED <<conv, messages, inbox, spc, stext, smedia, mpc, mids, recent, clock>>
    /\ UNCHANGED <<sid, sfail, delivered, listening>>
    /\ UNCHANGED otherThanChat

\* await createOrUpdateConversation(conversationId, [senderId, receiverId],
\* text.trim(), senderId)
sendMessage_conversation(u, text, media) ==
    /\ spc[u] = "idle"
    /\ chatOps < MaxChatOps
    /\ ValidMessage(text, media)
    /\ conv' = ConversationDoc(trim(text), u, clock)
    /\ spc' = [spc EXCEPT ![u] = "conversation"]
    /\ stext' = [stext EXCEPT ![u] = text]
    /\ smedia' = [smedia EXCEPT ![u] = media]
    /\ sres' = [sres EXCEPT ![u] = "sending"]
    /\ chatOps' = chatOps + 1
    /\ clock' = clock + 1
    /\ recent' = NoSend
    /\ sid' = [sid EXCEPT ![u] = chatOps + 1]
    /\ sfail' = [sfail EXCEPT ![u] = "none"]
    /\ UNCHANGED <<messages, inbox, mpc, mids, delivered, listening>>
    /\ UNCHANGED otherThanChat

\* await updateUserChats(conversationId, senderId, receiverId, text.trim()):
\* one batch with both entries
sendMessage_userChats(u) ==
    /\ spc[u] = "conversation"
    /\ inbox' = [inbox EXCEPT ![u] = SenderChat(trim(stext[u]), u, clock),
                              ![Other(u)] = ReceiverChat(trim(stext[u]), u, clock)]
    /\ spc' = [spc EXCEPT ![u] = "userChats"]
    /\ clock' = clock + 1
    /\ recent' = [sender |-> u, text |-> stext[u], done |-> FALSE]
    /\ UNCHANGED <<conv, messages, stext, smedia, sres, mpc, mids, chatOps>>
    /\ UNCHANGED <<sid, sfail, delivered, listening>>
    /\ UNCHANGED otherThanChat

\* await batch.commit(): the message document
sendMessage_commit(u) ==
    /\ spc[u] = "userChats"
    /\ messages' = messages \cup
          {MessageDoc(sid[u], trim(stext[u]), u, Other(u), smedia[u], clock)}
    /\ spc' = [spc EXCEPT ![u] = "idle"]
    /\ sres' = [sres EXCEPT ![u] = "sent"]
    /\ clock' = clock + 1
    /\ recent' = IF recent.sender = u THEN [recent EXCEPT !.done = TRUE] ELSE NoSend
    /\ stext' = [stext EXCEPT ![u] = <<>>]
    /\ smedia' = [smedia EXCEPT ![u] = FALSE]
    /\ UNCHANGED <<conv, inbox, mpc, mids, chatOps>>
    /\ UNCHANGED <<sid, sfail, delivered, listening>>
    /\ UNCHANGED otherThanChat

\* the store call the send is waiting for throws (or the client stops):
\* "Failed to send message"
sendMessage_fails(u) ==
    /\ spc[u] \in {"conversation", "userChats"}
    /\ spc' = [spc EXCEPT ![u] = "idle"]
    /\ sres' = [sres EXCEPT ![u] = "failed"]
    /\ recent' = IF recent.sender = u THEN NoSend ELSE recent
    /\ stext' = [stext EXCEPT ![u] = <<>>]
    /\ smedia' = [smedia EXCEPT ![u] = FALSE]
    /\ sfail' = [sfail EXCEPT ![u] = IF spc[u] = "conversation" THEN "userChats" ELSE "commit"]
    /\ UNCHANGED <<conv, messages, inbox, mpc, mids, chatOps, clock>>
    /\ UNCHANGED <<sid, delivered, listening>>
    /\ UNCHANGED otherThanChat

\* the query without where('receiverId', '==', userId)
markSeen_getDocs_anyReceiver(u) ==
    /\ mpc[u] = "idle"
    /\ chatOps < MaxChatOps
    /\ LET found == {m.id : m \in {x \in messages : ~x.seen}}
       IN /\ mids' = [mids EXCEPT ![u] = found]
          /\ mpc' = [mpc EXCEPT ![u] = IF found = {} THEN "idle" ELSE "queried"]
    /\ chatOps' = chatOps + 1
    /\ recent' = NoSend
    /\ UNCHANGED <<conv, messages, inbox, spc, stext, smedia, sres, clock>>
    /\ UNCHANGED <<sid, sfail, delivered, listening>>
    /\ UNCHANGED otherThanChat

\* await getDocs(q): where receiverId == userId, where seen == false;
\* if (snapshot.empty) return
markSeen_getDocs(u) ==
    /\ mpc[u] = "idle"
    /\ chatOps < MaxChatOps
    /\ LET found == {m.id : m \in {x \in messages : x.receiverId = u /\ ~x.seen}}
       IN /\ mids' = [mids EXCEPT ![u] = found]
          /\ mpc' = [mpc EXCEPT ![u] = IF found = {} THEN "idle" ELSE "queried"]
    /\ chatOps' = chatOps + 1
    /\ recent' = NoSend
    /\ UNCHANGED <<conv, messages, inbox, spc, stext, smedia, sres, clock>>
    /\ UNCHANGED <<sid, sfail, delivered, listening>>
    /\ UNCHANGED otherThanChat

\* await batch.commit(): seen: true, status: 'seen' on every document found
markSeen_commit(u) ==
    /\ mpc[u] = "queried"
    /\ messages' = {IF m.id \in mids[u] THEN [m EXCEPT !.seen = TRUE, !.status = "seen"] ELSE m
                      : m \in messages}
    /\ mpc' = [mpc EXCEPT ![u] = "committed"]
    /\ recent' = NoSend
    /\ UNCHANGED <<conv, inbox, spc, stext, smedia, sres, mids, chatOps, clock>>
    /\ UNCHANGED <<sid, sfail, delivered, listening>>
    /\ UNCHANGED otherThanChat

\* await markConversationAsSeen(conversationId, userId): updateDoc of the
\* caller's entry, its error caught and logged
markConversationAsSeen(u) ==
    /\ mpc[u] = "committed"
    /\ inbox' = IF inbox[u].exists
                THEN [inbox EXCEPT ![u] = [@ EXCEPT !.seen = TRUE]]
                ELSE inbox
    /\ mpc' = [mpc EXCEPT ![u] = "idle"]
    /\ mids' = [mids EXCEPT ![u] = {}]
    /\ recent' = NoSend
    /\ UNCHANGED <<conv, messages, spc, stext, smedia, sres, chatOps, clock>>
    /\ UNCHANGED <<sid, sfail, delivered, listening>>
    /\ UNCHANGED otherThanChat

\* the store call mark-seen is waiting for throws (or the client stops); the
\* error is caught and logged
markSeen_fails(u) ==
    /\ mpc[u] \in {"queried", "committed"}
    /\ mpc' = [mpc EXCEPT ![u] = "idle"]
    /\ mids' = [mids EXCEPT ![u] = {}]
    /\ UNCHANGED <<conv, messages, inbox, spc, stext, smedia, sres, chatOps, recent, clock>>
    /\ UNCHANGED <<sid, sfail, delivered, listening>>
    /\ UNCHANGED otherThanChat

(***************************************************************************)
(* subscribeToConversationMessages: the listener on the query               *)
(* orderBy('timestamp', 'asc'), limit(messageLimit) and its callback.       *)
(***************************************************************************)
\* the documents in the order in which their calls were started
RECURSIVE OrderByTimestamp_callOrder(_)
OrderByTimestamp_callOrder(ms) ==
    IF ms = {} THEN <<>>
    ELSE LET m == CHOOSE x \in ms : \A y \in ms : x.id <= y.id
         IN <<m>> \o OrderByTimestamp_callOrder(ms \ {m})

\* orderBy('timestamp', 'asc')
RECURSIVE OrderByTimestamp(_)
OrderByTimestamp(ms) ==
    IF ms = {} THEN <<>>
    ELSE LET m == CHOOSE x \in ms : \A y \in ms : x.timestamp <= y.timestamp
         IN <<m>> \o OrderByTimestamp(ms \ {m})

\* limit(messageLimit): the first messageLimit documents of the ordered result
Limit(docs, messageLimit) ==
    SubSeq(docs, 1, IF Len(docs) < messageLimit THEN Len(docs) ELSE messageLimit)

\* snapshot.docs.map(doc => ({id, text, ..., delivered: true}))
ChatMessage(d) ==
    [id |-> d.id, text |-> d.text, senderId |-> d.senderId, receiverId |-> d.receiverId,
     timestamp |-> d.timestamp, seen |-> d.seen, status |-> d.status,
     media |-> d.media, delivered |-> TRUE]

\* the list the listener computes from the current result of the query
QuerySnapshot(ms, messageLimit) ==
    LET docs == Limit(OrderByTimestamp(ms), messageLimit)
    IN [i \in 1..Len(docs) |-> ChatMessage(docs[i])]

\* onSnapshot(q, (snapshot) => callback(messages)): runs when the result of
\* the query has changed
onSnapshot_messages ==
    /\ listening
    /\ delivered # QuerySnapshot(messages, MessageLimit)
    /\ delivered' = QuerySnapshot(messages, MessageLimit)
    /\ UNCHANGED <<conv, messages, inbox, spc, stext, smedia, sres, mpc, mids, chatOps,
                   recent, sid, sfail, clock, listening>>
    /\ UNCHANGED otherThanChat

\* onSnapshot(q, ..., (error) => callback([])): the listener has failed and
\* delivers nothing after this
onSnapshot_error ==
    /\ listening
    /\ listening' = FALSE
    /\ delivered' = <<>>
    /\ UNCHANGED <<conv, messages, inbox, spc, stext, smedia, sres, mpc, mids, chatOps,
                   recent, sid, sfail, clock>>
    /\ UNCHANGED otherThanChat

(***************************************************************************)
(* Group chats: createGroupChat, addMemberToGroup, removeMemberFromGroup.  *)
(* Each call is one action; a store call that throws is the outcome        *)
(* "error".  The admins array is written by createGroupChat only, so the   *)
(* getDoc of a call and its updateDoc see the same admins.                 *)
(***************************************************************************)
GroupUsers == {1, 2, 3}
otherThanGroup ==
    <<notifs, nextId, likeVars, concVars, followVars, chatVars, sessVars, convIdVars, reelVars, gmsgVars>>

NoGroup == [exists |-> FALSE]
NoCall == [op |-> "none"]
GroupCall(op, userId, callerId, result) ==
    [op |-> op, userId |-> userId, callerId |-> callerId, result |-> result]

\* the members arrays a caller passes to createGroupChat
MemberLists == {<<>>, <<2>>, <<3>>, <<1, 2>>, <<2, 3>>, <<1, 2, 1>>}

\* the id addDoc gives the group
GroupId == "g1"
NoArgs == [id |-> "none"]
\* lastMessage: null of groupData
NoLastMessage == [exists |-> FALSE]

\* array.includes
Includes(seq, x) == \E i \in 1..Len(seq) : seq[i] = x

\* the array replaced by the one element
arrayUnion_replace(seq, x) == <<x>>

\* arrayUnion(x)
arrayUnion(seq, x) == IF Includes(seq, x) THEN seq ELSE Append(seq, x)

\* arrayRemove(x)
arrayRemove(seq, x) == FilterOut(seq, x)

\* groupData with the members array taken as passed, behind the creator
GroupData_unfiltered(members, createdBy, now) ==
    [exists |-> TRUE,
     members |-> <<createdBy>> \o members,
     admins |-> <<createdBy>>,
     updatedAt |-> now]

\* groupData of createGroupChat
GroupData(members, createdBy, now) ==
    [exists |-> TRUE,
     members |-> <<createdBy>> \o FilterOut(members, createdBy),
     admins |-> <<createdBy>>,
     updatedAt |-> now]

\* createGroupChat: addDoc(collection(db, 'groups'), groupData); the model
\* follows the first group created
createGroupChat(members, createdBy) ==
    /\ gops < MaxGroupOps
    /\ ~group.exists
    /\ \/ /\ group' = GroupData(members, createdBy, clock)
          /\ gres' = GroupCall("create", createdBy, createdBy, "ok")
          /\ gargs' = [id |-> GroupId, members |-> members, createdBy |-> createdBy]
          /\ clock' = clock + 1
       \/ /\ gres' = GroupCall("create", createdBy, createdBy, "error")
          /\ UNCHANGED <<group, clock, gargs>>
    /\ gops' = gops + 1
    /\ UNCHANGED otherThanGroup

\* the caller may change the members whatever the admins are
MayAdd_anyone(g, adminId) == TRUE

\* groupData.admins.includes(adminId)
MayAdd(g, adminId) == Includes(g.admins, adminId)

\* groupData.admins.includes(adminId) || adminId === userId
MayRemove(g, userId, adminId) == Includes(g.admins, adminId) \/ adminId = userId

addMemberToGroup(userId, adminId) ==
    /\ gops < MaxGroupOps
    /\ gops' = gops + 1
    /\ IF ~group.exists
       THEN /\ gres' = GroupCall("add", userId, adminId, "notFound")
            /\ UNCHANGED <<group, clock>>
       ELSE IF ~MayAdd(group, adminId)
       THEN /\ gres' = GroupCall("add", userId, adminId, "rejected")
            /\ UNCHANGED <<group, clock>>
       ELSE \/ /\ group' = [group EXCEPT !.members = arrayUnion(@, userId),
                                           !.updatedAt = clock]
               /\ gres' = GroupCall("add", userId, adminId, "ok")
               /\ clock' = clock + 1
            \/ /\ gres' = GroupCall("add", userId, adminId, "error")
               /\ UNCHANGED <<group, clock>>
    /\ UNCHANGED <<gargs, otherThanGroup>>

removeMemberFromGroup(userId, adminId) ==
    /\ gops < MaxGroupOps
    /\ gops' = gops + 1
    /\ IF ~group.exists
       THEN /\ gres' = GroupCall("remove", userId, adminId, "notFound")
            /\ UNCHANGED <<group, clock>>
       ELSE IF ~MayRemove(group, userId, adminId)
       THEN /\ gres' = GroupCall("remove", userId, adminId, "rejected")
            /\ UNCHANGED <<group, clock>>
       ELSE \/ /\ group' = [group EXCEPT !.members = arrayRemove(@, userId),
                                           !.updatedAt = clock]
               /\ gres' = GroupCall("remove", userId, adminId, "ok")
               /\ clock' = clock + 1
            \/ /\ gres' = GroupCall("remove", userId, adminId, "error")
               /\ UNCHANGED <<group, clock>>
    /\ UNCHANGED <<gargs, otherThanGroup>>

(***************************************************************************)
(* The client session: the auth provider (onAuthStateChanged listener,     *)
(* logout), the chat page's effects with the cached chat list, and         *)
(* useUnifiedNotifications with subscribeToUnifiedNotifications.  Every    *)
(* await of a handler ends a step.                                         *)
(***************************************************************************)
SessionUsers == FollowUsers
NoUser == 0
otherThanSession ==
    <<nextId, clock, likeVars, concVars, followVars, chatVars, groupVars, convIdVars, reelVars, gmsgVars>>

\* a user signs in (login, signup or signInWithGoogle succeeded)
signIn(u) ==
    /\ authUser = NoUser
    /\ authUser' = u
    /\ UNCHANGED <<currentUser, aclear, lpc, cache, ceff, nsub, nlive, npending, nstate, nlast>>
    /\ UNCHANGED <<notifs, otherThanSession>>

\* the auth service loses its user without logout(): the session was ended
\* in another tab, or the token was revoked
signedOutElsewhere ==
    /\ authUser # NoUser
    /\ lpc = "idle"
    /\ authUser' = NoUser
    /\ UNCHANGED <<currentUser, aclear, lpc, cache, ceff, nsub, nlive, npending, nstate, nlast>>
    /\ UNCHANGED <<notifs, otherThanSession>>

\* onAuthStateChanged(auth, async (user) => { setCurrentUser(user); ... up to
\* the await import(...) of the signed-out branch
onAuthStateChanged ==
    /\ authUser # currentUser
    /\ currentUser' = authUser
    /\ aclear' = IF authUser = NoUser THEN TRUE ELSE aclear
    /\ UNCHANGED <<authUser, lpc, cache, ceff, nsub, nlive, npending, nstate, nlast>>
    /\ UNCHANGED <<notifs, otherThanSession>>

\* the signed-out branch after its import: clearCachedChatList(), or the
\* import throws and the error is logged
onAuthStateChanged_clear ==
    /\ aclear
    /\ aclear' = FALSE
    /\ \/ cache' = NoUser
       \/ cache' = cache
    /\ UNCHANGED <<authUser, currentUser, lpc, ceff, nsub, nlive, npending, nstate, nlast>>
    /\ UNCHANGED <<notifs, otherThanSession>>

\* logout(): up to await import(...)
logout_import ==
    /\ lpc = "idle"
    /\ currentUser # NoUser
    /\ lpc' = "import"
    /\ UNCHANGED <<authUser, currentUser, aclear, cache, ceff, nsub, nlive, npending, nstate, nlast>>
    /\ UNCHANGED <<notifs, otherThanSession>>

\* logout(): clearCachedChatList(); ...; up to await authServiceLogout(), or
\* the import threw and logout ends in its catch
logout_clear ==
    /\ lpc = "import"
    /\ \/ cache' = NoUser /\ lpc' = "signOut"
       \/ cache' = cache /\ lpc' = "idle"
    /\ UNCHANGED <<authUser, currentUser, aclear, ceff, nsub, nlive, npending, nstate, nlast>>
    /\ UNCHANGED <<notifs, otherThanSession>>

\* authServiceLogout() resolves, the auth service has no user; or it rejects
logout_signedOut ==
    /\ lpc = "signOut"
    /\ lpc' = "idle"
    /\ \/ authUser' = NoUser
       \/ authUser' = authUser
    /\ UNCHANGED <<currentUser, aclear, cache, ceff, nsub, nlive, npending, nstate, nlast>>
    /\ UNCHANGED <<notifs, otherThanSession>>

\* the effects of the chat page after currentUser changed: the subscription
\* to the chat list follows the user, and without a user the cache is cleared
Chat_effects ==
    /\ ceff # currentUser
    /\ ceff' = currentUser
    /\ cache' = IF currentUser = NoUser THEN NoUser ELSE cache
    /\ UNCHANGED <<authUser, currentUser, aclear, lpc, nsub, nlive, npending, nstate, nlast>>
    /\ UNCHANGED <<notifs, otherThanSession>>

\* subscribeToUserChatList delivers the user's chat list and caches it
subscribeToUserChatList_update ==
    /\ ceff # NoUser
    /\ cache # ceff
    /\ cache' = ceff
    /\ UNCHANGED <<authUser, currentUser, aclear, lpc, ceff, nsub, nlive, npending, nstate, nlast>>
    /\ UNCHANGED <<notifs, otherThanSession>>

\* useUnifiedNotifications, the effect on [currentUser?.uid]: the cleanup of
\* the previous run (unsubscribe), then clear the state or subscribe
NoSnapshot == [received |-> FALSE, list |-> <<>>]

useUnifiedNotifications_effect ==
    /\ nsub # currentUser
    /\ nsub' = currentUser
    /\ nlive' = (currentUser # NoUser)
    /\ nstate' = IF currentUser = NoUser THEN <<>> ELSE nstate
    /\ nlast' = NoSnapshot
    /\ UNCHANGED <<authUser, currentUser, aclear, lpc, cache, ceff, npending>>
    /\ UNCHANGED <<notifs, otherThanSession>>

\* orderBy('timestamp', 'desc')
RECURSIVE OrderByTimestampDesc(_)
OrderByTimestampDesc(ns) ==
    IF ns = {} THEN <<>>
    ELSE LET n == CHOOSE x \in ns : \A y \in ns : x.timestamp >= y.timestamp
         IN <<n>> \o OrderByTimestampDesc(ns \ {n})

\* notifications.push({...}) for one document of the snapshot
UnifiedNotification(d) ==
    [id |-> d.id, type |-> d.type, senderId |-> d.senderId, receiverId |-> d.receiverId,
     timestamp |-> d.timestamp, seen |-> d.seen, postId |-> d.postId,
     aggregatedCount |-> d.aggregatedCount, lastActors |-> d.lastActors,
     senderProfile |-> getUserProfile(d.senderId)]

\* the list the snapshot handler builds for the notifications of userId
NotificationList(ns, userId) ==
    LET docs == OrderByTimestampDesc({n \in ns : n.receiverId = userId})
    IN [i \in 1..Len(docs) |-> UnifiedNotification(docs[i])]

\* onSnapshot(q, async (snapshot) => ...): with no document the handler runs
\* through to callback(notifications); otherwise it stops at its first
\* await getUserProfile(...)
onSnapshot_notifications ==
    /\ nlive
    /\ LET list == NotificationList(notifs, nsub)
       IN IF list = <<>>
          THEN /\ nstate # <<>>
               /\ nstate' = <<>>
               /\ UNCHANGED npending
          ELSE /\ [user |-> nsub, list |-> list] \notin npending
               /\ nstate # list
               /\ npending' = npending \cup {[user |-> nsub, list |-> list]}
               /\ UNCHANGED nstate
    /\ nlast' = [received |-> TRUE, list |-> NotificationList(notifs, nsub)]
    /\ UNCHANGED <<authUser, currentUser, aclear, lpc, cache, ceff, nsub, nlive>>
    /\ UNCHANGED <<notifs, otherThanSession>>

\* the snapshot handler h after its awaits: callback(notifications), i.e.
\* setNotifications(newNotifications)
subscribeToUnifiedNotifications_callback(h) ==
    /\ h \in npending
    /\ npending' = npending \ {h}
    /\ nstate' = h.list
    /\ UNCHANGED <<authUser, currentUser, aclear, lpc, cache, ceff, nsub, nlive, nlast>>
    /\ UNCHANGED <<notifs, otherThanSession>>

\* onSnapshot(q, ..., (error) => callback([])): the listener has failed
onSnapshot_notificationsError ==
    /\ nlive
    /\ nlive' = FALSE
    /\ nstate' = <<>>
    /\ UNCHANGED <<authUser, currentUser, aclear, lpc, cache, ceff, nsub, npending, nlast>>
    /\ UNCHANGED <<notifs, otherThanSession>>

(***************************************************************************)
(* createConversationId: [userId1, userId2].sort().join('_'), on           *)
(* identifiers as sequences of characters.                                 *)
(***************************************************************************)
\* the characters of the identifiers, with their UTF-16 code units
IdChars == {"_", "x"}
CodeUnit(ch) == IF ch = "_" THEN 95 ELSE 120

\* the non-empty identifiers of at most MaxIdLen characters
Identifiers == UNION {[1..n -> IdChars] : n \in 1..MaxIdLen}

\* the default comparison of Array.prototype.sort: a before b when a is
\* smaller in the order of the code units
RECURSIVE Precedes(_, _)
Precedes(a, b) ==
    IF b = <<>> THEN FALSE
    ELSE IF a = <<>> THEN TRUE
    ELSE IF CodeUnit(Head(a)) # CodeUnit(Head(b)) THEN CodeUnit(Head(a)) < CodeUnit(Head(b))
    ELSE Precedes(Tail(a), Tail(b))

\* the pair left in the order of the arguments
sortedIds_asGiven(userId1, userId2) == <<userId1, userId2>>

\* [userId1, userId2].sort()
sortedIds(userId1, userId2) ==
    IF Precedes(userId2, userId1) THEN <<userId2, userId1>> ELSE <<userId1, userId2>>

\* sortedIds.join('_')
createConversationId(userId1, userId2) ==
    LET ids == sortedIds(userId1, userId2) IN ids[1] \o <<"_">> \o ids[2]

\* one call of createConversationId
createConversationId_call(userId1, userId2) ==
    /\ cin' = <<userId1, userId2>>
    /\ cout' = createConversationId(userId1, userId2)
    /\ UNCHANGED <<notifs, nextId, clock, likeVars, concVars, followVars, chatVars,
                   groupVars, sessVars, reelVars, gmsgVars>>

vars == <<notifs, nextId, clock, postLikes, likeCount, hist, cpc, csnap, cops,
          followRequests, followers, following, followersCount, followingCount,
          isPrivate, lastOp, fops,
          conv, messages, inbox, spc, stext, smedia, sres, mpc, mids, chatOps, recent,
          sid, sfail, delivered, listening, group, gres, gops,
          authUser, currentUser, aclear, lpc, cache, ceff, nsub, nlive, npending, nstate, nlast,
          cin, cout, reelLikes, reelLikeCount, rhist, gargs, gmsgs, glast, gmres, gmops>>

Init ==
    /\ notifs = {}
    /\ nextId = 1
    /\ clock = 1
    /\ postLikes = {}
    /\ likeCount = 0
    /\ hist = <<>>
    /\ cpc = [c \in Clients |-> "idle"]
    /\ csnap = [c \in Clients |-> NoDoc]
    /\ cops = [c \in Clients |-> 0]
    /\ followRequests = {}
    /\ followers = {}
    /\ following = {}
    /\ followersCount = [u \in FollowUsers |-> 0]
    /\ followingCount = [u \in FollowUsers |-> 0]
    /\ isPrivate = [u \in FollowUsers |-> FALSE]
    /\ lastOp = NoOp
    /\ fops = 0
    /\ conv = NoDocument
    /\ messages = {}
    /\ inbox = [u \in ChatUsers |-> NoDocument]
    /\ spc = [u \in ChatUsers |-> "idle"]
    /\ stext = [u \in ChatUsers |-> <<>>]
    /\ smedia = [u \in ChatUsers |-> FALSE]
    /\ sres = [u \in ChatUsers |-> "none"]
    /\ mpc = [u \in ChatUsers |-> "idle"]
    /\ mids = [u \in ChatUsers |-> {}]
    /\ chatOps = 0
    /\ recent = NoSend
    /\ sid = [u \in ChatUsers |-> 0]
    /\ sfail = [u \in ChatUsers |-> "none"]
    /\ delivered = <<>>
    /\ listening = TRUE
    /\ group = NoGroup
    /\ gres = NoCall
    /\ gops = 0
    /\ authUser = NoUser
    /\ currentUser = NoUser
    /\ aclear = FALSE
    /\ lpc = "idle"
    /\ cache = NoUser
    /\ ceff = NoUser
    /\ nsub = NoUser
    /\ nlive = FALSE
    /\ npending = {}
    /\ nstate = <<>>
    /\ nlast = NoSnapshot
    /\ cin = <<>>
    /\ cout = <<>>
    /\ reelLikes = {}
    /\ reelLikeCount = 0
    /\ rhist = <<>>
    /\ gargs = NoArgs
    /\ gmsgs = {}
    /\ glast = NoLastMessage
    /\ gmres = NoCall
    /\ gmops = 0

NextLike ==
    \/ \E u \in Users : likePost(u)
    \/ \E u \in Users : unlikePost(u)

SpecLike == Init /\ [][NextLike]_vars

NextLikeToggle ==
    \/ \E u \in Users : likePost_notLiking(u)
    \/ \E u \in Users : unlikePost_liking(u)

SpecLikeToggle == Init /\ [][NextLikeToggle]_vars

NextLikeConc ==
    \/ \E c \in Clients : createLike_getDocs(c)
    \/ \E c \in Clients : createLike_write(c)
    \/ \E c \in Clients : removeLike_getDocs(c)
    \/ \E c \in Clients : removeLike_write(c)

SpecLikeConc == Init /\ [][NextLikeConc]_vars

NextFollow ==
    \/ \E c, t \in FollowUsers : followUser(c, t)
    \/ \E c, t \in FollowUsers : sendFollowRequest(c, t)
    \/ \E t, r \in FollowUsers : t # r /\ acceptFollowRequest(t, r)
    \/ \E t, r \in FollowUsers : t # r /\ acceptFollowRequest_batch(t, r)
    \/ \E t, r \in FollowUsers : t # r /\ rejectFollowRequest(t, r)
    \/ \E c, t \in FollowUsers : c # t /\ unfollowUser(c, t)
    \/ \E c, f \in FollowUsers : c # f /\ removeFollower(c, f)
    \/ \E c, t \in FollowUsers : c # t /\ cancelFollowRequest(c, t)
    \/ \E u \in FollowUsers, id \in 1..MaxFollowOps : markUnifiedNotificationAsSeen(u, id)
    \/ \E u \in FollowUsers, b \in BOOLEAN : setPrivacy(u, b)

SpecFollow == Init /\ [][NextFollow]_vars

NextChat ==
    \/ \E u \in ChatUsers, text \in Texts, media \in BOOLEAN : sendMessage_rejected(u, text, media)
    \/ \E u \in ChatUsers, text \in Texts, media \in BOOLEAN : sendMessage_conversation(u, text, media)
    \/ \E u \in ChatUsers : sendMessage_userChats(u)
    \/ \E u \in ChatUsers : sendMessage_commit(u)
    \/ \E u \in ChatUsers : sendMessage_fails(u)
    \/ \E u \in ChatUsers : markSeen_getDocs(u)
    \/ \E u \in ChatUsers : markSeen_commit(u)
    \/ \E u \in ChatUsers : markConversationAsSeen(u)
    \/ \E u \in ChatUsers : markSeen_fails(u)

SpecChat == Init /\ [][NextChat]_vars

\* sends and mark-seen with a subscriber on the conversation; the messages
\* sent are text messages
NextMessages ==
    \/ \E u \in ChatUsers, text \in Texts, media \in {FALSE} : sendMessage_rejected(u, text, media)
    \/ \E u \in ChatUsers, text \in Texts, media \in {FALSE} : sendMessage_conversation(u, text, media)
    \/ \E u \in ChatUsers : sendMessage_userChats(u)
    \/ \E u \in ChatUsers : sendMessage_commit(u)
    \/ \E u \in ChatUsers : sendMessage_fails(u)
    \/ \E u \in ChatUsers : markSeen_getDocs(u)
    \/ \E u \in ChatUsers : markSeen_commit(u)
    \/ \E u \in ChatUsers : markConversationAsSeen(u)
    \/ \E u \in ChatUsers : markSeen_fails(u)
    \/ onSnapshot_messages
    \/ onSnapshot_error

SpecMessages == Init /\ [][NextMessages]_vars

\* likes and follows in one behaviour of at most MaxSocialOps calls
SocialBudget == Len(hist) + fops < MaxSocialOps

NextSocial ==
    \/ \E u \in Users : SocialBudget /\ likePost(u)
    \/ \E u \in Users : SocialBudget /\ likePost_fails(u)
    \/ \E u \in Users : SocialBudget /\ unlikePost(u)
    \/ \E c, t \in FollowUsers : SocialBudget /\ followUser(c, t)
    \/ \E c, t \in FollowUsers : SocialBudget /\ sendFollowRequest(c, t)
    \/ \E r, s \in FollowUsers, type \in NotificationTypes :
          SocialBudget /\ createUnifiedNotification_call(r, s, type)

SpecSocial == Init /\ [][NextSocial]_vars

NextSession ==
    \/ \E u \in SessionUsers : signIn(u)
    \/ signedOutElsewhere
    \/ onAuthStateChanged
    \/ onAuthStateChanged_clear
    \/ logout_import
    \/ logout_clear
    \/ logout_signedOut
    \/ Chat_effects
    \/ subscribeToUserChatList_update
    \/ useUnifiedNotifications_effect
    \/ onSnapshot_notifications
    \/ \E h \in npending : subscribeToUnifiedNotifications_callback(h)
    \/ onSnapshot_notificationsError
    \/ \E r, s \in FollowUsers : createUnifiedNotification_call(r, s, "follow_request")

SpecSession == Init /\ [][NextSession]_vars

(***************************************************************************)
(* Reels: likeReel and unlikeReel of useReelsActions.                      *)
(***************************************************************************)
Reel == "r1"                    \* the reel that is liked
ReelOwner == Owner              \* reelData.userId
ReelUsers == {Owner, 1, 2}      \* currentUser.uid of the caller

ReelCall(name, u, ok) == [op |-> name, actor |-> u, ok |-> ok]

\* likeReel: getDoc(reelRef); updateDoc(likes: arrayUnion, likeCount:
\* increment(1)); createLikeNotification for a liker other than the owner.
\* k counts the store calls completed before the catch: k = 0, the reel was
\* not found or getDoc or updateDoc threw; k = 1, the notification call
\* threw; k = 2, return true
likeReel(u) ==
    /\ Len(rhist) < MaxReelOps
    /\ \E k \in 0..2 :
        /\ k = 1 => ReelOwner # u
        /\ reelLikes' = IF k >= 1 THEN reelLikes \cup {u} ELSE reelLikes
        /\ reelLikeCount' = IF k >= 1 THEN reelLikeCount + 1 ELSE reelLikeCount
        /\ IF k = 2 /\ ReelOwner # u
           THEN notifs' \in createLikeNotification(notifs, ReelOwner, u, Reel, nextId, clock)
           ELSE notifs' = notifs
        /\ rhist' = Append(rhist, ReelCall("likeReel", u, k = 2))
    /\ nextId' = IdUsed(notifs, notifs', nextId)
    /\ clock' = clock + 1
    /\ UNCHANGED <<likeVars, concVars, followVars, chatVars, groupVars, sessVars, convIdVars, gmsgVars>>

\* unlikeReel: updateDoc(likes: arrayRemove, likeCount: increment(-1)) and
\* nothing else; k = 0, updateDoc threw; k = 1, return true
unlikeReel(u) ==
    /\ Len(rhist) < MaxReelOps
    /\ \E k \in 0..1 :
        /\ reelLikes' = IF k = 1 THEN reelLikes \ {u} ELSE reelLikes
        /\ reelLikeCount' = IF k = 1 THEN reelLikeCount - 1 ELSE reelLikeCount
        /\ rhist' = Append(rhist, ReelCall("unlikeReel", u, k = 1))
    /\ clock' = clock + 1
    /\ UNCHANGED <<notifs, nextId, likeVars, concVars, followVars, chatVars, groupVars,
                   sessVars, convIdVars, gmsgVars>>

NextReel ==
    \/ \E u \in ReelUsers : likeReel(u)
    \/ \E u \in ReelUsers : unlikeReel(u)

SpecReel == Init /\ [][NextReel]_vars

NextConversationId ==
    \E userId1, userId2 \in Identifiers : createConversationId_call(userId1, userId2)

SpecConversationId == Init /\ [][NextConversationId]_vars

(***************************************************************************)
(* Group messages: sendGroupMessage and markGroupMessageAsSeen.            *)
(***************************************************************************)
otherThanGroupChat ==
    <<notifs, nextId, likeVars, concVars, followVars, chatVars, sessVars, convIdVars, reelVars>>
GroupTexts == {<<" ", "a">>, <<" ">>}
GroupMessageIds == 1..MaxGroupMsgOps

GroupMessageCall(op, userId, id, result) ==
    [op |-> op, userId |-> userId, id |-> id, result |-> result]

\* messageData of sendGroupMessage
GroupMessageData(id, senderId, text, now) ==
    [id |-> id, text |-> trim(text), senderId |-> senderId, timestamp |-> now,
     seen |-> <<senderId>>, status |-> "sent"]

\* lastMessageData of sendGroupMessage
LastMessageData(senderId, text, now) ==
    [exists |-> TRUE, text |-> trim(text), senderId |-> senderId, timestamp |-> now,
     seen |-> FALSE]

\* sendGroupMessage without mediaURL: a text that trims to nothing is
\* rejected before the store is touched; otherwise one batch sets the
\* message and updates the group document (the update, and the batch with
\* it, fails when the group document does not exist)
sendGroupMessage(senderId, text) ==
    /\ gmops < MaxGroupMsgOps
    /\ gmops' = gmops + 1
    /\ IF trim(text) = <<>>
       THEN /\ gmres' = GroupMessageCall("send", senderId, 0, "rejected")
            /\ UNCHANGED <<gmsgs, glast, group, clock>>
       ELSE IF ~group.exists
       THEN /\ gmres' = GroupMessageCall("send", senderId, 0, "error")
            /\ UNCHANGED <<gmsgs, glast, group, clock>>
       ELSE \/ /\ gmsgs' = gmsgs \cup {GroupMessageData(gmops + 1, senderId, text, clock)}
               /\ glast' = LastMessageData(senderId, text, clock)
               /\ group' = [group EXCEPT !.updatedAt = clock]
               /\ gmres' = GroupMessageCall("send", senderId, gmops + 1, "ok")
               /\ clock' = clock + 1
            \/ /\ gmres' = GroupMessageCall("send", senderId, 0, "error")
               /\ UNCHANGED <<gmsgs, glast, group, clock>>
    /\ UNCHANGED <<gres, gops, gargs, otherThanGroupChat>>

\* markGroupMessageAsSeen: updateDoc(messageRef, seen: arrayUnion(userId));
\* an error (the message document does not exist, or the store fails) is
\* caught and logged
markGroupMessageAsSeen(messageId, userId) ==
    /\ gmops < MaxGroupMsgOps
    /\ gmops' = gmops + 1
    /\ IF \E m \in gmsgs : m.id = messageId
       THEN \/ /\ gmsgs' = {IF m.id = messageId
                               THEN [m EXCEPT !.seen = arrayUnion(@, userId)]
                               ELSE m : m \in gmsgs}
               /\ gmres' = GroupMessageCall("markSeen", userId, messageId, "ok")
            \/ /\ gmres' = GroupMessageCall("markSeen", userId, messageId, "error")
               /\ UNCHANGED gmsgs
       ELSE /\ gmres' = GroupMessageCall("markSeen", userId, messageId, "error")
            /\ UNCHANGED gmsgs
    /\ UNCHANGED <<glast, clock, groupVars, otherThanGroupChat>>

\* one budget for the group and message calls of a behaviour
GroupChatBudget == gops + gmops < MaxGroupMsgOps

NextGroupChat ==
    \/ /\ GroupChatBudget
       /\ \E members \in MemberLists, createdBy \in GroupUsers : createGroupChat(members, createdBy)
    \/ /\ GroupChatBudget
       /\ \E userId, adminId \in GroupUsers : removeMemberFromGroup(userId, adminId)
    \/ /\ GroupChatBudget
       /\ \E senderId \in GroupUsers, text \in GroupTexts : sendGroupMessage(senderId, text)
    \/ /\ GroupChatBudget
       /\ \E messageId \in GroupMessageIds, userId \in GroupUsers :
              markGroupMessageAsSeen(messageId, userId)

SpecGroupChat == Init /\ [][NextGroupChat]_vars

NextGroup ==
    \/ \E members \in MemberLists, createdBy \in GroupUsers : createGroupChat(members, createdBy)
    \/ \E userId, adminId \in GroupUsers : addMemberToGroup(userId, adminId)
    \/ \E userId, adminId \in GroupUsers : removeMemberFromGroup(userId, adminId)

SpecGroup == Init /\ [][NextGroup]_vars

(***************************************************************************)
(* Properties of the like aggregation (SpecLike).                          *)
(***************************************************************************)
\* the like notifications the owner holds for post P
LikeNotifs(ns) == {n \in ns : n.receiverId = Owner /\ n.type = "like" /\ n.postId = P}

Like(a) == [op |-> "like", actor |-> a]
Unlike(a) == [op |-> "unlike", actor |-> a]

\* the calls so far are likes by pairwise distinct actors, none the owner
DistinctLikes ==
    /\ \A i \in 1..Len(hist) : hist[i].op = "like" /\ hist[i].actor # Owner
    /\ \A i, j \in 1..Len(hist) : i # j => hist[i].actor # hist[j].actor

Min(a, b) == IF a <= b THEN a ELSE b

\* the k most recent likers, most recent first
RecentLikers(k) == [i \in 1..k |-> hist[Len(hist) + 1 - i].actor]

\* C2: in every reachable state, also while createUnifiedNotification calls
\* of kind 'like' by different senders interleave, the recipient holds at
\* most one like notification per (recipient, postId).
C2_AtMostOneLike == Cardinality(LikeNotifs(notifs)) <= 1

\* C3: after N >= 1 sequential likes of P by N distinct actors (none the
\* owner, no unlike), exactly one like notification exists for P, its
\* aggregatedCount is N and its lastActors are the min(N,3) most recent
\* likers, most recent first.
C3_CountLaw ==
    (Len(hist) >= 1 /\ DistinctLikes) =>
        /\ Cardinality(LikeNotifs(notifs)) = 1
        /\ \A n \in LikeNotifs(notifs) :
              /\ n.aggregatedCount = Len(hist)
              /\ n.lastActors = RecentLikers(Min(Len(hist), 3))

C3_Witness == Len(hist) = 4 /\ DistinctLikes

\* C4: a like by an actor whose previous call was a like of the same post
\* (no unlike in between) leaves the notification's aggregatedCount as it was.
C4_RepeatedLikeKeepsCount ==
    [][\A a \in Actors :
         (/\ Len(hist) >= 1
          /\ hist[Len(hist)] = Like(a)
          /\ hist' = Append(hist, Like(a)))
         => \A n \in LikeNotifs(notifs) :
               \E m \in LikeNotifs(notifs') :
                  m.id = n.id /\ m.aggregatedCount = n.aggregatedCount]_vars

\* C5: from no like notification for P, a like by the single actor X and
\* then X's unlike leave no like notification for (Owner, P).
C5_LikeUnlikeLeavesNone ==
    \A x \in Actors :
        hist = <<Like(x), Unlike(x)>> => LikeNotifs(notifs) = {}

C5_Witness == \E x \in Actors : hist = <<Like(x), Unlike(x)>>

\* C6: from no like notification for P, likes by distinct X then Y and one
\* unlike by either of them leave exactly one like notification, with
\* aggregatedCount 1 and senderId the actor who did not unlike.
C6_TwoLikesOneUnlike ==
    \A x, y \in Actors :
        x # y =>
            /\ hist = <<Like(x), Like(y), Unlike(x)>> =>
                  /\ Cardinality(LikeNotifs(notifs)) = 1
                  /\ \A n \in LikeNotifs(notifs) :
                        n.aggregatedCount = 1 /\ n.senderId = y
            /\ hist = <<Like(x), Like(y), Unlike(y)>> =>
                  /\ Cardinality(LikeNotifs(notifs)) = 1
                  /\ \A n \in LikeNotifs(notifs) :
                        n.aggregatedCount = 1 /\ n.senderId = x

C6_Witness ==
    \E x, y \in Actors :
        /\ x # y
        /\ hist = <<Like(x), Like(y), Unlike(y)>>
        /\ \E n \in notifs : n.senderId = x

(***************************************************************************)
(* Properties of the follow graph (SpecFollow).                            *)
(***************************************************************************)
SentRequest(r, t) == Op("sendFollowRequest", r, t, TRUE, TRUE)

\* the follow_request notifications from r among t's notifications
RequestNotifs(ns, t, r) ==
    {n \in ns : n.receiverId = t /\ n.senderId = r /\ n.type = "follow_request"}

Accepted(t, r) ==
    /\ lastOp.op \in {"acceptFollowRequest", "acceptFollowRequest_batch"}
    /\ lastOp.a = t /\ lastOp.b = r
    /\ lastOp.ok

\* C8: after acceptFollowRequest(T, R) returned success, users/T/followers/R
\* and users/R/following/T exist and users/T/followRequests/R does not.
C8_AcceptedMirror ==
    \A t, r \in FollowUsers :
        Accepted(t, r) =>
            /\ <<t, r>> \in followers
            /\ <<r, t>> \in following
            /\ <<t, r>> \notin followRequests

C8_Witness ==
    \E t, r \in FollowUsers :
        /\ lastOp = Op("acceptFollowRequest", t, r, TRUE, TRUE)
        /\ <<t, r>> \in followers
        /\ \E n \in notifs : n.type = "follow_accept" /\ n.receiverId = r

\* C9: acceptFollowRequest of followOperations.ts applies the two edge
\* documents and the deletion of the request as one unit: after the call,
\* however it ended, all three effects are visible or none is.
C9_AcceptAtomic ==
    [][\A t, r \in FollowUsers :
         (/\ lastOp'.op = "acceptFollowRequest"
          /\ lastOp'.a = t /\ lastOp'.b = r
          /\ fops' = fops + 1)
         => \/ /\ <<t, r>> \in followers'
               /\ <<r, t>> \in following'
               /\ <<t, r>> \notin followRequests'
            \/ /\ followers' = followers
               /\ following' = following
               /\ followRequests' = followRequests]_vars

\* C10: the pending document users/T/followRequests/R never exists together
\* with an established edge R -> T.
C10_RequestExcludesEdge ==
    \A t, r \in FollowUsers :
        <<t, r>> \in followRequests =>
            (<<t, r>> \notin followers /\ <<r, t>> \notin following)

(***************************************************************************)
(* Properties of the chat fan-out (SpecChat).                              *)
(***************************************************************************)
\* a send has completed and no step of another send or of a mark-seen has
\* followed its inbox write
JustSent == recent # NoSend /\ recent.done

\* C1 as stated: after sendMessageToConversation(A, B, text) completed and
\* before any later send or mark-seen, A's entry has seen=true, B's has
\* seen=false and both carry lastMessage = text.
C1_InboxShowsSentText ==
    JustSent =>
        /\ inbox[recent.sender].seen
        /\ ~inbox[Other(recent.sender)].seen
        /\ inbox[recent.sender].lastMessage = recent.text
        /\ inbox[Other(recent.sender)].lastMessage = recent.text

\* C1 amended: ... and both carry lastMessage = text.trim(), the text the
\* message document stores.
C1_InboxShowsTrimmedText ==
    JustSent =>
        /\ inbox[recent.sender].seen
        /\ ~inbox[Other(recent.sender)].seen
        /\ inbox[recent.sender].lastMessage = trim(recent.text)
        /\ inbox[Other(recent.sender)].lastMessage = trim(recent.text)
        /\ \E m \in messages :
              m.senderId = recent.sender /\ m.text = trim(recent.text)

C1_Witness ==
    /\ JustSent
    /\ recent.text # trim(recent.text)
    /\ trim(recent.text) # <<>>
    /\ Cardinality(messages) >= 2

(***************************************************************************)
(* Properties of sending and reading (SpecChat).                           *)
(***************************************************************************)
\* C11 (as stated): the conversation document's last-message summary and the
\* message it summarises are visible together in every reachable state: the
\* summary names a message that is in the log, and a logged message comes
\* with a summary.
C11_SummaryWithMessage ==
    /\ conv.exists =>
          \E m \in messages : /\ m.text = conv.lastMessage
                               /\ m.senderId = conv.lastMessageSenderId
    /\ messages # {} => conv.exists

\* C12 (as stated): a send that failed at its updateUserChats step has its
\* message in the message log once it has ended.
C12_InboxFailureKeepsMessage ==
    \A u \in ChatUsers :
        (spc[u] = "idle" /\ sres[u] = "failed" /\ sfail[u] = "userChats")
            => \E m \in messages : m.id = sid[u]

\* a step in which markConversationMessagesAsSeen(c, u) returns without a
\* store error: after an empty query, or after its last store call
MarkSeenReturns(u) ==
    \/ markSeen_getDocs(u) /\ mpc'[u] = "idle"
    \/ markConversationAsSeen(u) /\ inbox[u].exists

\* the messages for u that the call now returning had to mark: every message
\* for u at an empty query, the ones its query found otherwise (the others
\* were seen before, and no handler resets seen)
HadToMark(u) ==
    IF mpc[u] = "idle" THEN {m.id : m \in {x \in messages : x.receiverId = u}}
    ELSE mids[u]

\* C13 (as stated): when markConversationMessagesAsSeen(c, u) returns without
\* a store error, every message for u that existed at its start is seen with
\* status 'seen', and u's inbox entry for c is seen.
C13_MarkSeenMarksAll ==
    [][\A u \in ChatUsers :
          MarkSeenReturns(u) =>
              /\ \A m \in messages' :
                    m.id \in HadToMark(u) => m.seen /\ m.status = "seen"
              /\ inbox'[u].exists => inbox'[u].seen]_vars

(***************************************************************************)
(* Properties of the message subscription (SpecMessages).                  *)
(***************************************************************************)
\* the ids of the n messages of ms with the latest timestamps
MostRecent(ms, n) ==
    {m.id : m \in {x \in ms : Cardinality({y \in ms : y.timestamp > x.timestamp}) < n}}

\* C14 (as stated): a list delivered while the log holds more than
\* MessageLimit messages consists of the MessageLimit most recent ones.
C14_WindowIsMostRecent ==
    [][(onSnapshot_messages /\ Cardinality(messages) > MessageLimit) =>
          {delivered'[i].id : i \in 1..Len(delivered')} = MostRecent(messages, MessageLimit)]_vars

\* C15: every delivered list is ascending by the timestamp the store
\* assigned, whatever the order in which the sends were started.
C15_DeliveredAscending ==
    \A i, j \in 1..Len(delivered) :
        i < j => delivered[i].timestamp <= delivered[j].timestamp

\* a delivered list of two messages whose sends were started in the opposite
\* order of their commits
C15_Witness ==
    /\ Len(delivered) = 2
    /\ delivered[1].id > delivered[2].id
    /\ delivered[1].timestamp < delivered[2].timestamp

(***************************************************************************)
(* Properties of group membership (SpecGroup).                             *)
(***************************************************************************)
Range(seq) == {seq[i] : i \in 1..Len(seq)}

\* a step of addMemberToGroup / removeMemberFromGroup, told by the call it
\* records
GroupStep(op) == gops' = gops + 1 /\ gres'.op = op

\* C16: a step of addMemberToGroup changes the group document only if its
\* caller is an admin, a step of removeMemberFromGroup only if its caller is
\* an admin or the member removed; a rejected call leaves the document as it
\* was; a member who removes themself is never rejected, and is gone from the
\* members when the call's write went through.
C16_MembershipAuthorized ==
    [][/\ (GroupStep("add") /\ group' # group) => gres'.callerId \in Range(group.admins)
       /\ (GroupStep("remove") /\ group' # group) =>
              \/ gres'.callerId \in Range(group.admins)
              \/ gres'.callerId = gres'.userId
       /\ (gops' = gops + 1 /\ gres'.result = "rejected") => group' = group
       /\ (/\ GroupStep("remove")
           /\ group.exists
           /\ gres'.callerId = gres'.userId
           /\ gres'.userId \in Range(group.members)) =>
              /\ gres'.result \in {"ok", "error"}
              /\ gres'.result = "ok" => gres'.userId \notin Range(group'.members)]_vars

\* a member who is not an admin has removed themself
C16_Witness ==
    /\ gres.op = "remove"
    /\ gres.result = "ok"
    /\ gres.callerId = gres.userId
    /\ group.exists
    /\ gres.callerId \notin Range(group.admins)
    /\ gres.callerId \notin Range(group.members)

(***************************************************************************)
(* Properties of self-actions and of failing notifications (SpecSocial).   *)
(***************************************************************************)
\* the call made in this step, when it is a follow handler or a direct
\* notification call
FollowStep(op) == fops' = fops + 1 /\ lastOp'.op = op

\* C17: a self-action leaves no trace: createUnifiedNotification with
\* receiver = sender leaves the notifications as they were, whatever the
\* kind; likePost by the post's owner leaves them as they were; and
\* followUser(u, u) returns false with every request, edge, counter and
\* notification unchanged.
C17_SelfActionsLeaveNoTrace ==
    [][/\ (FollowStep("createUnifiedNotification") /\ lastOp'.a = lastOp'.b)
            => notifs' = notifs
       /\ (Len(hist') = Len(hist) + 1 /\ hist'[Len(hist')] = Like(Owner))
            => notifs' = notifs
       /\ (FollowStep("followUser") /\ lastOp'.a = lastOp'.b)
            => /\ ~lastOp'.ok
               /\ UNCHANGED <<graphVars, notifs>>]_vars

\* the owner has liked their own post, notifications of others exist, and
\* the last call was a self-follow
C17_Witness ==
    /\ \E i \in 1..Len(hist) : hist[i] = Like(Owner)
    /\ lastOp.op = "followUser"
    /\ lastOp.a = lastOp.b
    /\ notifs # {}

\* C18 (as stated): a likePost whose like was written and whose notification
\* could not be created (the liker is not the owner, and the notifications
\* are as before) reports success, the like staying on the post.
C18_NotificationFailureSwallowed ==
    [][(/\ Len(hist') = Len(hist) + 1
        /\ likeCount' = likeCount + 1
        /\ hist'[Len(hist')].actor # PostOwner
        /\ notifs' = notifs)
            => /\ hist'[Len(hist')].op = "like"
               /\ hist'[Len(hist')].actor \in postLikes']_vars

(***************************************************************************)
(* Properties of the client session (SpecSession).                         *)
(***************************************************************************)
\* C19 (as stated): the callback of subscribeToUnifiedNotifications writes
\* the notifications state only while the listener it belongs to is the one
\* attached: never for a user other than the one the hook is subscribed for.
C19_NoCallbackAfterDispose ==
    [][\A h \in npending :
          (npending' = npending \ {h} /\ nstate' = h.list) => h.user = nsub]_vars

\* C20 (as stated): a cached chat list that is present belongs to the user
\* the auth context holds; with no user there is no cached list.
C20_CacheClearedWithUser ==
    cache # NoUser => cache = currentUser

(***************************************************************************)
(* Properties of createConversationId (SpecConversationId).                *)
(***************************************************************************)
\* C21: for distinct identifiers a and b, createConversationId(a, b) =
\* createConversationId(b, a): a call with the arguments of the previous
\* call exchanged returns what the previous call returned.
C21_ConversationIdSymmetric ==
    [][(/\ cin # <<>>
        /\ cin[1] # cin[2]
        /\ cin' = <<cin[2], cin[1]>>) => cout' = cout]_vars

\* the result of a call whose arguments sort() had to exchange
C21_Witness ==
    /\ cin # <<>>
    /\ Precedes(cin[2], cin[1])
    /\ cout = cin[2] \o <<"_">> \o cin[1]

\* C22 (as stated): for identifiers a, b, c with b # c, both distinct from
\* a, createConversationId(a, b) # createConversationId(a, c): two calls
\* with the same first argument and different second arguments return
\* different ids.
C22_ConversationIdSeparates ==
    [][(/\ cin # <<>>
        /\ cin' # <<>>
        /\ cin'[1] = cin[1]
        /\ cin'[2] # cin[2]
        /\ cin[2] # cin[1]
        /\ cin'[2] # cin[1]) => cout' # cout]_vars

(***************************************************************************)
(* Further properties of the chat (SpecChat).                              *)
(***************************************************************************)
\* C23 (as stated): a reader whose inbox entry is seen has no unseen message
\* addressed to them in the log.
C23_SeenInboxHidesNothing ==
    \A u \in ChatUsers :
        (inbox[u].exists /\ inbox[u].seen)
            => \A m \in messages : m.receiverId = u => m.seen

\* every send started so far has run to its end without an error: each of
\* its three store calls advanced the clock and left one message
AllSendsCompleted ==
    /\ \A u \in ChatUsers : spc[u] = "idle"
    /\ messages # {}
    /\ clock = 1 + 3 * Cardinality(messages)

\* the text of the message with the greatest timestamp
LatestText == (CHOOSE m \in messages : \A x \in messages : x.timestamp <= m.timestamp).text

\* C24 (as stated): once all sends have completed successfully, both inbox
\* entries and the conversation document carry the text of the message with
\* the greatest timestamp.
C24_SummariesShowLatest ==
    AllSendsCompleted =>
        /\ conv.lastMessage = LatestText
        /\ \A u \in ChatUsers : inbox[u].lastMessage = LatestText

(***************************************************************************)
(* Further properties of the follow graph (SpecFollow).                    *)
(***************************************************************************)
\* every following document has its followers document and conversely
Mirrored(fg, fr) == \A f, t \in FollowUsers : <<f, t>> \in fg <=> <<t, f>> \in fr

\* C25 (as stated): a call of followUser, unfollowUser or removeFollower that
\* starts with the edge documents mirrored returns, with true or false, with
\* the edge documents mirrored.
C25_EdgesMirrored ==
    [][(/\ FollowStep("followUser") \/ FollowStep("unfollowUser") \/ FollowStep("removeFollower")
        /\ Mirrored(following, followers))
            => Mirrored(following', followers')]_vars

\* the step is a successful reject of r's request by t, or a successful
\* cancel of it by r (cancelFollowRequest, or unfollowUser with the request
\* pending)
RequestDropped(t, r) ==
    /\ fops' = fops + 1
    /\ lastOp'.ok
    /\ \/ lastOp'.op = "rejectFollowRequest" /\ lastOp'.a = t /\ lastOp'.b = r
       \/ lastOp'.op = "cancelFollowRequest" /\ lastOp'.a = r /\ lastOp'.b = t
       \/ /\ lastOp'.op = "unfollowUser" /\ lastOp'.a = r /\ lastOp'.b = t
          /\ <<t, r>> \in followRequests

\* C26 (as stated): after a successful reject or cancel neither the request
\* document nor a follow_request notification from r among t's notifications
\* remains, and the edge documents are as before.
C26_RequestAndNotificationGone ==
    [][\A t, r \in FollowUsers :
          RequestDropped(t, r) =>
              /\ <<t, r>> \notin followRequests'
              /\ RequestNotifs(notifs', t, r) = {}
              /\ UNCHANGED <<followers, following>>]_vars

\* C27: followUser on a target stored as private writes no edge document and
\* no counter; when it returns true the request document exists, and when
\* its notification call went through, a follow_request notification from
\* the caller is among the target's notifications.
C27_PrivateFollowOnlyRequests ==
    [][(/\ FollowStep("followUser")
        /\ lastOp'.a # lastOp'.b
        /\ isPrivate[lastOp'.b])
            => /\ UNCHANGED <<followers, following, followersCount, followingCount>>
               /\ lastOp'.ok => <<lastOp'.b, lastOp'.a>> \in followRequests'
               /\ lastOp'.full => RequestNotifs(notifs', lastOp'.b, lastOp'.a) # {}]_vars

\* followUser on a private target has returned true: request and
\* notification exist, and there is no edge
C27_Witness ==
    /\ lastOp.op = "followUser"
    /\ lastOp.full
    /\ isPrivate[lastOp.b]
    /\ <<lastOp.b, lastOp.a>> \in followRequests
    /\ RequestNotifs(notifs, lastOp.b, lastOp.a) # {}
    /\ following = {}
    /\ followers = {}

\* C29 (as stated): a second successful followUser(f, t) on a public target
\* whose edge to t is already in place, and a second successful
\* unfollowUser(f, t) with the edge already gone and no request pending,
\* change nothing: edge documents and counters stay as they are.
C29_FollowWritesIdempotent ==
    [][\A f, t \in FollowUsers :
          /\ (/\ fops' = fops + 1
              /\ lastOp' = Op("followUser", f, t, TRUE, TRUE)
              /\ lastOp = Op("followUser", f, t, TRUE, TRUE)
              /\ f # t
              /\ ~isPrivate[t]
              /\ <<f, t>> \in following
              /\ <<t, f>> \in followers) => UNCHANGED graphVars
          /\ (/\ fops' = fops + 1
              /\ lastOp' = Op("unfollowUser", f, t, TRUE, TRUE)
              /\ lastOp = Op("unfollowUser", f, t, TRUE, TRUE)
              /\ <<t, f>> \notin followRequests
              /\ <<f, t>> \notin following
              /\ <<t, f>> \notin followers) => UNCHANGED graphVars]_vars

(***************************************************************************)
(* Further properties of groups (SpecGroup).                               *)
(***************************************************************************)
\* C30 (as stated): the admins of a group are not empty and are all members.
C30_AdminsAreMembers ==
    group.exists =>
        /\ Range(group.admins) # {}
        /\ Range(group.admins) \subseteq Range(group.members)

(***************************************************************************)
(* Properties of reels (SpecReel).                                         *)
(***************************************************************************)
ReelLikeNotifs(ns) == {n \in ns : n.receiverId = ReelOwner /\ n.type = "like" /\ n.postId = Reel}

\* C28 (as stated): after likeReel and then unlikeReel by one and the same
\* actor, both returning true and no one else having acted, the reel owner
\* has no like notification for the reel.
C28_ReelUnlikeClearsNotification ==
    \A u \in ReelUsers :
        rhist = <<ReelCall("likeReel", u, TRUE), ReelCall("unlikeReel", u, TRUE)>>
            => ReelLikeNotifs(notifs) = {}

(***************************************************************************)
(* Properties of group messages (SpecGroupChat) and of group creation      *)
(* (SpecGroup).                                                            *)
(***************************************************************************)
GroupMsgStep(op) == gmops' = gmops + 1 /\ gmres'.op = op
MessageIds(ms) == {m.id : m \in ms}
Occurrences(seq, x) == Cardinality({i \in 1..Len(seq) : seq[i] = x})

\* C31: a message enters the log with seen = [senderId]; every message of
\* the log stays in it with the same sender and text and with a seen array
\* that has lost no user; a successful markGroupMessageAsSeen puts userId in
\* the array, and changes nothing when userId is already in it.
C31_SeenByOnlyGrows ==
    [][/\ \A m \in gmsgs : \E n \in gmsgs' :
              /\ n.id = m.id
              /\ n.senderId = m.senderId
              /\ n.text = m.text
              /\ Range(m.seen) \subseteq Range(n.seen)
       /\ \A n \in gmsgs' : n.id \notin MessageIds(gmsgs) => n.seen = <<n.senderId>>
       /\ (GroupMsgStep("markSeen") /\ gmres'.result = "ok") =>
              /\ \A n \in gmsgs' : n.id = gmres'.id => Includes(n.seen, gmres'.userId)
              /\ (\A m \in gmsgs : m.id = gmres'.id => Includes(m.seen, gmres'.userId))
                     => gmsgs' = gmsgs]_vars

\* a reader other than the sender has marked a message seen
C31_Witness ==
    /\ gmres.op = "markSeen"
    /\ gmres.result = "ok"
    /\ \E m \in gmsgs :
           /\ m.id = gmres.id
           /\ m.senderId # gmres.userId
           /\ Len(m.seen) = 2
           /\ Includes(m.seen, gmres.userId)

\* C32: a successful createGroupChat stores a members array that holds the
\* creator once and, besides, exactly the requested members, stores
\* admins = [creator], and returns the id of the new group document.
C32_CreatorOnceAndSoleAdmin ==
    [][(GroupStep("create") /\ gres'.result = "ok") =>
          /\ group'.exists
          /\ gargs'.createdBy = gres'.callerId
          /\ Occurrences(group'.members, gargs'.createdBy) = 1
          /\ Range(group'.members) = {gargs'.createdBy} \cup Range(gargs'.members)
          /\ group'.admins = <<gargs'.createdBy>>
          /\ gargs'.id = GroupId]_vars

\* a group has been created from a members array that lists the creator
C32_Witness ==
    /\ gres.op = "create"
    /\ gres.result = "ok"
    /\ Includes(gargs.members, gargs.createdBy)
    /\ Len(group.members) < 1 + Len(gargs.members)
    /\ group.admins = <<gargs.createdBy>>

\* C39 (as stated): a sendGroupMessage that writes a message is made by a
\* user who is in the group's members array at that time.
C39_SenderIsMember ==
    [][(GroupMsgStep("send") /\ gmres'.result = "ok") =>
          Includes(group.members, gmres'.userId)]_vars

(***************************************************************************)
(* Frame and inbox properties of the chat (SpecChat).                      *)
(***************************************************************************)
\* C33: every message of the log stays in it with its text, sender,
\* recipient and timestamp; seen never goes from true to false; a message
\* changes only in the batch commit of a mark-seen run by its recipient,
\* and then to seen = true, status = 'seen'.
C33_MessagesOnlyMarkedSeen ==
    [][\A m \in messages : \E n \in messages' :
          /\ n.id = m.id
          /\ n.text = m.text
          /\ n.senderId = m.senderId
          /\ n.receiverId = m.receiverId
          /\ n.timestamp = m.timestamp
          /\ m.seen => n.seen
          /\ n # m => /\ mpc[m.receiverId] = "queried"
                      /\ mpc'[m.receiverId] = "committed"
                      /\ mpc'[m.senderId] = mpc[m.senderId]
                      /\ n.seen
                      /\ n.status = "seen"]_vars

\* a reader has marked the message they received as seen while the message
\* they sent is still unseen
C33_Witness ==
    \E m, n \in messages :
        /\ m.seen
        /\ m.status = "seen"
        /\ n.senderId = m.receiverId
        /\ ~n.seen
        /\ n.status = "sent"

\* C35 (as stated): the lastMessage of an inbox entry is the text of a
\* message in the log.
C35_InboxTextIsLogged ==
    \A u \in ChatUsers :
        inbox[u].exists => \E m \in messages : m.text = inbox[u].lastMessage

\* C40: an inbox entry whose lastMessageSenderId is its owner has
\* seen = true.
C40_OwnLastMessageSeen ==
    \A u \in ChatUsers :
        (inbox[u].exists /\ inbox[u].lastMessageSenderId = u) => inbox[u].seen

\* the owner's entry shows their own message, after the other participant
\* has both sent and run mark-seen
C40_Witness ==
    \E u \in ChatUsers :
        /\ inbox[u].exists
        /\ inbox[u].lastMessageSenderId = u
        /\ inbox[u].seen
        /\ \E m \in messages : m.receiverId = u
        /\ \E m \in messages : m.receiverId = Other(u) /\ m.seen

(***************************************************************************)
(* Accepting a request that is not there (SpecFollow).                     *)
(***************************************************************************)
\* C34 (as stated): acceptFollowRequest(t, r) called while no document
\* users/t/followRequests/r exists writes no edge document, no counter and
\* no notification.
C34_AcceptNeedsRequest ==
    [][(/\ FollowStep("acceptFollowRequest")
        /\ <<lastOp'.a, lastOp'.b>> \notin followRequests)
            => UNCHANGED <<followers, following, followersCount, followingCount, notifs>>]_vars

(***************************************************************************)
(* Concurrent likes on an existing notification (SpecLikeConc).            *)
(***************************************************************************)
\* client c writes its aggregated like from a snapshot of the notification
\* that another actor's like has overtaken by one since c read it
OvertakenLikeWrite(c, n) ==
    /\ cpc[c] = "like"
    /\ cpc'[c] = "idle"
    /\ csnap[c] # NoDoc
    /\ n.id = csnap[c].id
    /\ csnap[c].senderId # c
    /\ n.senderId # c
    /\ n.senderId # csnap[c].senderId
    /\ n.aggregatedCount = csnap[c].aggregatedCount + 1

\* C36 (as stated): when two distinct actors like concurrently on an
\* existing notification, the later write adds its like to the earlier
\* one: the count is one more than the stored count, two more than the
\* count both read, and both actors are in lastActors.
C36_NoLostIncrement ==
    [][\A c \in Clients : \A n \in notifs :
          OvertakenLikeWrite(c, n) =>
              \E m \in notifs' :
                  /\ m.id = n.id
                  /\ m.aggregatedCount = csnap[c].aggregatedCount + 2
                  /\ {c, n.senderId} \subseteq Range(m.lastActors)]_vars

(***************************************************************************)
(* Likes and unlikes that alternate per user (SpecLikeToggle).             *)
(***************************************************************************)
\* C37 (as stated): the like notification names as senderId a user whose
\* like is in effect, and its lastActors is not empty and lists only such
\* users.
C37_NotificationNamesCurrentLikers ==
    \A n \in LikeNotifs(notifs) :
        /\ n.senderId \in postLikes
        /\ n.lastActors # <<>>
        /\ Range(n.lastActors) \subseteq postLikes

(***************************************************************************)
(* Order of the notification callbacks (SpecSession).                      *)
(***************************************************************************)
\* C38 (as stated): once every snapshot handler of the attached listener
\* has called back, the notifications state is the list of the snapshot
\* the listener received last.
C38_StateIsLatestSnapshot ==
    (nlive /\ nlast.received /\ npending = {}) => nstate = nlast.list

=============================================================================
